---- MODULE Spec2Model ----
(***************************************************************************)
(* NetlinkAuditCodec (netlink-packet-audit/src/codec.rs): the decode loop  *)
(* that extracts netlink frames from a byte buffer, with the audit         *)
(* "truncated packet" workaround that rewrites nlmsg_len, and encode,      *)
(* which forwards to the generic codec.                                    *)
(*                                                                         *)
(* The buffer is a sequence of bytes.  A netlink header is 16 bytes:       *)
(*   nlmsg_len u32 | nlmsg_type u16 | nlmsg_flags u16 | seq u32 | pid u32  *)
(* all in native (little endian) byte order.                               *)
(***************************************************************************)
EXTENDS Integers, Sequences, FiniteSets, TLC

VARIABLES src, pc, ret, entry, handed, it, prev, out, enc

vars == <<src, pc, ret, entry, handed, it, prev, out, enc>>

----------------------------------------------------------------------------
(* Bounds of the model                                                     *)

MaxFrames == 3

\* bytes the output buffer can hold (stands for usize::MAX)
MaxCapacity == 40

----------------------------------------------------------------------------
(* Program constants                                                       *)

\* the slack threshold of the truncation workaround
SLACK == 16

\* size of a netlink header (end of the port number field)
HEADER_LEN == 16

NLMSG_NOOP == 1

NLMSG_DONE == 3

\* a message type that no payload decoder knows
UNKNOWN_TYPE == 0

KnownTypes == {NLMSG_NOOP, NLMSG_DONE}

----------------------------------------------------------------------------
(* Bytes                                                                   *)

LE32(n) ==
  <<n % 256, (n \div 256) % 256, (n \div 65536) % 256, (n \div 16777216) % 256>>

LE16(n) == <<n % 256, (n \div 256) % 256>>

ReadLE32(b, at) ==
  b[at] + 256 * b[at + 1] + 65536 * b[at + 2] + 16777216 * b[at + 3]

ReadLE16(b, at) == b[at] + 256 * b[at + 1]

Zeros(n) == [i \in 1..n |-> 0]

----------------------------------------------------------------------------
(* NetlinkBuffer: the header view                                          *)

\* NetlinkBuffer::length: the declared total length of the frame
length(b) == ReadLE32(b, 1)

\* NetlinkBuffer::set_length: overwrite the declared length in place
set_length(b, n) == LE32(n) \o SubSeq(b, 5, Len(b))

message_type(b) == ReadLE16(b, 5)

\* NetlinkBuffer::new_checked: Ok iff the buffer holds a whole header and
\* the declared length is neither beyond the buffer ("truncated packet")
\* nor smaller than a header ("invalid length field")
new_checked(b) ==
  /\ Len(b) >= HEADER_LEN
  /\ length(b) <= Len(b)
  /\ length(b) >= HEADER_LEN

----------------------------------------------------------------------------
(* The typed codec                                                         *)

\* the typed message a frame parses to
Message(b) ==
  [ length          |-> length(b),
    message_type    |-> message_type(b),
    flags           |-> ReadLE16(b, 7),
    sequence_number |-> ReadLE32(b, 9),
    port_number     |-> ReadLE32(b, 13),
    payload         |-> SubSeq(b, HEADER_LEN + 1, length(b)) ]

\* NetlinkMessage::<T>::deserialize: checks the header again, then decodes
\* the payload according to the message type
deserialize(b) ==
  IF new_checked(b) /\ message_type(b) \in KnownTypes
  THEN [ok |-> TRUE, packet |-> Message(b)]
  ELSE [ok |-> FALSE]

\* the bytes a typed message takes on the wire
buffer_len(m) == HEADER_LEN + Len(m.payload)

\* NetlinkMessage::serialize: the header fields, then the payload
serialize(m) ==
  LE32(m.length) \o LE16(m.message_type) \o LE16(m.flags)
    \o LE32(m.sequence_number) \o LE32(m.port_number) \o m.payload

----------------------------------------------------------------------------
(* BytesMut                                                                *)

\* a loop without the test for an empty buffer
is_empty_never(b) == FALSE

is_empty(b) == Len(b) = 0

\* split_off instead of split_to: returns the tail, keeps the front
split_off(b, at) ==
  [bytes |-> SubSeq(b, at + 1, Len(b)), rest |-> SubSeq(b, 1, at)]

\* a split that hands the frame out without consuming it
split_peek(b, at) == [bytes |-> SubSeq(b, 1, at), rest |-> b]

\* BytesMut::split_to(at): returns the first `at` bytes, keeps the rest
split_to(b, at) ==
  [bytes |-> SubSeq(b, 1, at), rest |-> SubSeq(b, at + 1, Len(b))]

\* skipping one header instead of clearing
clear_skipHeader(b) == SubSeq(b, HEADER_LEN + 1, Len(b))

\* BytesMut::clear
clear(b) == <<>>

\* BytesMut::remaining_mut
remaining_mut(b) == MaxCapacity - Len(b)

----------------------------------------------------------------------------
(* Encoding (codec.rs 118-123)                                             *)

\* NetlinkCodec::encode, the generic codec: fails before writing anything
\* when the message does not fit, else appends the serialized message
NetlinkCodec_encode(msg, buf) ==
  IF remaining_mut(buf) < buffer_len(msg)
  THEN [res |-> "Err", buf |-> buf]
  ELSE [res |-> "Ok", buf |-> buf \o serialize(msg)]

\* an encode that first pads the output to a multiple of 4 bytes
encode_aligned(msg, buf) ==
  NetlinkCodec_encode(msg, buf \o Zeros((4 - (Len(buf) % 4)) % 4))

\* an encode that declares the payload length only, as the kernel does
encode_audit(msg, buf) ==
  NetlinkCodec_encode([msg EXCEPT !.length = Len(msg.payload)], buf)

\* NetlinkAuditCodec::encode
encode(msg, buf) == NetlinkCodec_encode(msg, buf)

----------------------------------------------------------------------------
(* Frame length resolution (codec.rs 47-84)                                *)

\* the workaround's test with a strict comparison
Truncated_strict(src_len, declared) == src_len - declared < SLACK

\* the workaround's test with a threshold twice as large
Truncated_wide(src_len, declared) == src_len - declared <= 2 * SLACK

\* the test of the truncation workaround
Truncated(src_len, declared) == src_len - declared <= SLACK

\* the workaround adding the header size to the declared length
NewLength_addHeader(src_len, declared) == declared + HEADER_LEN

\* the workaround leaving the declared length as it is
NewLength_keep(src_len, declared) == declared

\* the length written to the header by the workaround
NewLength(src_len, declared) == src_len

\* the resolver adding the header size to the declared length
ResolveLen_addHeader(src_len, declared) ==
  IF Truncated(src_len, declared) THEN declared + HEADER_LEN ELSE declared

\* the resolver taking the declared length as the payload's length
ResolveLen_payload(src_len, declared) ==
  IF Truncated(src_len, declared) THEN src_len ELSE declared - HEADER_LEN

\* the resolved frame length
ResolveLen(src_len, declared) ==
  IF Truncated(src_len, declared) THEN src_len ELSE declared

\* the buffer after the header has been looked at; `src_len as u32` keeps
\* the value of every length below 2^32, and LE32 writes its low 32 bits
Rewritten(b) ==
  IF Truncated(Len(b), length(b))
  THEN set_length(b, NewLength(Len(b), length(b)))
  ELSE b

----------------------------------------------------------------------------
(* Results                                                                 *)

NoCall == [tag |-> "NoCall"]

Pending == [tag |-> "Pending"]

None == [tag |-> "None"]

Some(m) == [tag |-> "Some", packet |-> m]

NoIter == [kind |-> "none"]

NoPrev == [called |-> FALSE]

Err == [tag |-> "Err"]

NoEnc == [called |-> FALSE]

----------------------------------------------------------------------------
(* The buffers the transport may hand to decode                            *)

\* <<bytes in the datagram, bytes its header declares>>: exact, short by a
\* padding of 4, below the header size, and beyond the datagram
SegShapes ==
  {<<8, 8>>, <<16, 16>>, <<16, 12>>, <<17, 17>>, <<17, 13>>,
   <<20, 20>>, <<20, 16>>, <<20, 24>>}

SegTypes == {NLMSG_NOOP, UNKNOWN_TYPE}

\* a datagram of l bytes whose header declares d bytes, sequence number i
Segment(l, d, t, i) ==
  SubSeq(LE32(d) \o LE16(t) \o LE16(0) \o LE32(i) \o LE32(0)
           \o Zeros(IF l > HEADER_LEN THEN l - HEADER_LEN ELSE 0), 1, l)

RECURSIVE Buffers(_)
Buffers(k) ==
  IF k = 0 THEN {<<>>}
  ELSE {b \o Segment(sh[1], sh[2], t, k) :
          b \in Buffers(k - 1), sh \in SegShapes, t \in SegTypes}

InitBuffers == UNION {Buffers(k) : k \in 0..MaxFrames}

----------------------------------------------------------------------------
(* State machine                                                           *)

Init ==
  /\ src \in InitBuffers
  /\ pc = "idle"
  /\ ret = NoCall
  /\ entry = <<>>
  /\ handed = {}
  /\ it = NoIter
  /\ prev = NoPrev
  /\ out = <<>>
  /\ enc = NoEnc

\* decode is entered (codec.rs 32-36)
Call ==
  /\ pc = "idle"
  /\ pc' = "loop"
  /\ entry' = src
  /\ handed' = {}
  /\ it' = NoIter
  /\ ret' = Pending
  /\ prev' = IF ret = NoCall THEN NoPrev
             ELSE [called |-> TRUE, entry |-> entry, ret |-> ret, it |-> it]
  /\ UNCHANGED <<src, out, enc>>

\* codec.rs 40-43
LoopEmpty ==
  /\ pc = "loop"
  /\ is_empty(src)
  /\ ret' = None
  /\ pc' = "idle"
  /\ UNCHANGED <<src, entry, handed, it, prev, out, enc>>

\* the header error handed on to the caller
OnHeaderErr_propagate(b) == Err

\* codec.rs 98: a header that does not parse is reported as "no message"
OnHeaderErr(b) == None

\* codec.rs 85-99
LoopHeaderErr ==
  /\ pc = "loop"
  /\ ~is_empty(src)
  /\ ~new_checked(src)
  /\ src' = clear(src)
  /\ ret' = OnHeaderErr(src)
  /\ pc' = "idle"
  /\ it' = [kind |-> "header_err", off |-> Len(entry) - Len(src),
            src_len |-> Len(src)]
  /\ UNCHANGED <<entry, handed, prev, out, enc>>

\* giving up on the first frame whose payload does not decode
OnPayloadErr_return(b) == "return"

\* codec.rs 110-113: a frame whose payload does not decode is dropped and
\* the loop continues
OnPayloadErr(b) == "continue"

\* codec.rs 47-84 and 102-115: the header parses, a frame is split off and
\* handed to the typed codec
Frame(wantOk) ==
  /\ pc = "loop"
  /\ ~is_empty(src)
  /\ new_checked(src)
  /\ LET src_len  == Len(src)
         declared == length(src)
         len      == ResolveLen(src_len, declared)
         buf      == Rewritten(src)
         off      == Len(entry) - Len(src)
     IN IF len > Len(buf)
        THEN \* split_to panics
             /\ wantOk = FALSE
             /\ pc' = "panicked"
             /\ it' = [kind |-> "frame", off |-> off, src_len |-> src_len,
                       declared |-> declared, len |-> len, bytes |-> <<>>,
                       ok |-> FALSE]
             /\ UNCHANGED <<src, ret, handed>>
        ELSE LET sp     == split_to(buf, len)
                 parsed == deserialize(sp.bytes)
             IN /\ parsed.ok = wantOk
                /\ src' = sp.rest
                /\ handed' = handed \cup {[off |-> off, bytes |-> sp.bytes]}
                /\ it' = [kind |-> "frame", off |-> off, src_len |-> src_len,
                          declared |-> declared, len |-> len,
                          bytes |-> sp.bytes, ok |-> parsed.ok]
                /\ IF parsed.ok
                   THEN ret' = Some(parsed.packet) /\ pc' = "idle"
                   ELSE IF OnPayloadErr(sp.bytes) = "continue"
                        THEN ret' = ret /\ pc' = "loop"
                        ELSE ret' = None /\ pc' = "idle"
  /\ UNCHANGED <<entry, prev, out, enc>>

\* codec.rs 106-109
LoopFrameOk == Frame(TRUE)

\* codec.rs 110-113
LoopFrameErr == Frame(FALSE)

Next ==
  \/ Call
  \/ LoopEmpty
  \/ LoopHeaderErr
  \/ LoopFrameOk
  \/ LoopFrameErr

Spec == Init /\ [][Next]_vars

----------------------------------------------------------------------------
(* Encoding, then decoding what was encoded                                *)

MsgPayloads == {<<>>, <<7>>, <<1, 2, 3, 4>>}

\* a finalized message: its header length is its length on the wire
Msg(t, p) ==
  [ length          |-> HEADER_LEN + Len(p),
    message_type    |-> t,
    flags           |-> 5,
    sequence_number |-> 2,
    port_number     |-> 3,
    payload         |-> p ]

Messages == {Msg(t, p) : t \in KnownTypes, p \in MsgPayloads}

\* what the transport delivers behind the encoded bytes: nothing, junk, an
\* undecodable datagram, a header-only datagram
Tails ==
  {<<>>, Zeros(17), Segment(20, 20, UNKNOWN_TYPE, 9),
   Segment(16, 16, NLMSG_NOOP, 9)}

EncInit ==
  /\ src = <<>>
  /\ pc = "idle"
  /\ ret = NoCall
  /\ entry = <<>>
  /\ handed = {}
  /\ it = NoIter
  /\ prev = NoPrev
  /\ out = <<>>
  /\ enc = NoEnc

\* codec.rs 118-123: a message is encoded into the output buffer, before
\* anything was received
Encode ==
  /\ pc = "idle"
  /\ ret = NoCall
  /\ src = <<>>
  /\ \E m \in Messages :
       LET r == encode(m, out)
       IN /\ out' = r.buf
          /\ enc' = [called |-> TRUE, msg |-> m, before |-> out,
                     res |-> r.res, bytes |-> r.buf]
  /\ UNCHANGED <<src, pc, ret, entry, handed, it, prev>>

\* the transport hands the bytes written so far back to the reader in one
\* read, possibly with further bytes behind them
Loopback ==
  /\ pc = "idle"
  /\ ret = NoCall
  /\ src = <<>>
  /\ out # <<>>
  /\ \E tail \in Tails : src' = out \o tail
  /\ out' = <<>>
  /\ UNCHANGED <<pc, ret, entry, handed, it, prev, enc>>

EncNext ==
  \/ Encode
  \/ Loopback
  \/ Call
  \/ LoopEmpty
  \/ LoopHeaderErr
  \/ LoopFrameOk
  \/ LoopFrameErr

EncSpec == EncInit /\ [][EncNext]_vars

\* decode is synchronous and runs to completion, and the stream polls it
\* again after every return
FairSpec == Spec /\ WF_vars(Next)

----------------------------------------------------------------------------
(* Helpers of the properties                                               *)

\* the last n bytes of b
Suffix(b, n) == SubSeq(b, Len(b) - n + 1, Len(b))

IsSuffix(s, b) == Len(s) <= Len(b) /\ s = Suffix(b, Len(s))

\* b is one well-formed frame: a whole header whose declared length is the
\* byte length of b
ExactFrame(b) == Len(b) >= HEADER_LEN /\ length(b) = Len(b)

Decodable(b) == deserialize(b).ok

FrameIter == it.kind = "frame"

Slack == it.src_len - it.declared

----------------------------------------------------------------------------
(* Properties                                                              *)

\* C1: in every iteration in which the header parses, the resolved length
\* len satisfies 1 <= len <= src.len(), so split_to never panics.
C1_LenInBounds ==
  /\ pc # "panicked"
  /\ FrameIter => /\ 1 <= it.len
                  /\ it.len <= it.src_len
                  /\ Len(it.bytes) = it.len

\* C1 witness: in a later iteration of a call a frame shorter than the
\* buffer was split off by its declared length
C1_Witness ==
  /\ FrameIter
  /\ it.len = it.declared
  /\ it.len < it.src_len
  /\ it.off > 0

\* C2: if the slack S - D is <= 16 the resolved length is S and the header's
\* length field is rewritten to S; if it is > 16 the resolved length is D and
\* the length field is left unchanged.
C2_Resolution ==
  FrameIter =>
    IF it.src_len - it.declared <= 16
    THEN /\ it.len = it.src_len
         /\ length(it.bytes) = it.src_len
         /\ it.bytes = LE32(it.src_len) \o SubSeq(Suffix(entry, it.src_len), 5, it.src_len)
    ELSE /\ it.len = it.declared
         /\ length(it.bytes) = it.declared
         /\ it.bytes = SubSeq(Suffix(entry, it.src_len), 1, it.declared)

\* C2 witness: an iteration at the threshold, slack exactly 16, whose header
\* length was changed
C2_Witness ==
  /\ FrameIter
  /\ Slack = 16
  /\ length(it.bytes) = it.declared + 16

\* C2 second witness: an iteration just above the threshold
C2_WitnessAbove ==
  /\ FrameIter
  /\ Slack = 17
  /\ it.len = it.declared

\* the frame at the front of b, as far as its header declares it
First(b) == SubSeq(b, 1, length(b))

\* what follows the first frame of b
Rest(b) == SubSeq(b, length(b) + 1, Len(b))

\* b is two whole frames back to back, each declaring its own byte length
TwoExact(b) ==
  /\ Len(b) >= 2 * HEADER_LEN
  /\ length(b) >= HEADER_LEN
  /\ length(b) <= Len(b) - HEADER_LEN
  /\ ExactFrame(Rest(b))

TwoFrames(b) == TwoExact(b) /\ Decodable(First(b)) /\ Decodable(Rest(b))

BadThenGood(b) == TwoExact(b) /\ ~Decodable(First(b)) /\ Decodable(Rest(b))

Returned == pc = "idle" /\ ret # NoCall

\* C3 as stated: for two back-to-back decodable frames of any legal size the
\* first call returns message 1 and leaves frame 2, the second call returns
\* message 2 and leaves the buffer empty.
C3_Original ==
  /\ (Returned /\ TwoFrames(entry)) =>
        /\ ret = Some(Message(First(entry)))
        /\ src = Rest(entry)
  /\ (Returned /\ prev.called /\ TwoFrames(prev.entry)) =>
        /\ ret = Some(Message(Rest(prev.entry)))
        /\ src = <<>>

\* C3 amended: the same, for a second frame longer than 16 bytes (a second
\* frame of exactly 16 bytes makes the slack 16 and is taken into frame 1).
C3_TwoFrames ==
  /\ (Returned /\ TwoFrames(entry) /\ Len(Rest(entry)) > 16) =>
        /\ ret = Some(Message(First(entry)))
        /\ src = Rest(entry)
        /\ handed = {[off |-> 0, bytes |-> First(entry)]}
  /\ (Returned /\ prev.called /\ TwoFrames(prev.entry)
        /\ Len(Rest(prev.entry)) > 16) =>
        /\ entry = Rest(prev.entry)
        /\ ret = Some(Message(Rest(prev.entry)))
        /\ src = <<>>

\* C3 witness: the second call on two frames has returned message 2
C3_Witness ==
  /\ Returned
  /\ prev.called
  /\ TwoFrames(prev.entry)
  /\ Len(Rest(prev.entry)) > 16
  /\ prev.ret = Some(Message(First(prev.entry)))
  /\ ret = Some(Message(Rest(prev.entry)))
  /\ ret # prev.ret
  /\ src = <<>>

\* C4 as stated: an undecodable well-framed frame followed by a decodable
\* frame of any legal size: one call drops the first, returns the message of
\* the second unaltered, and leaves the buffer empty.
C4_Original ==
  (Returned /\ BadThenGood(entry)) =>
     /\ ret = Some(Message(Rest(entry)))
     /\ src = <<>>

\* C4 amended: the same, for a second frame longer than 16 bytes.
C4_BadThenGood ==
  (Returned /\ BadThenGood(entry) /\ Len(Rest(entry)) > 16) =>
     /\ ret = Some(Message(Rest(entry)))
     /\ src = <<>>
     /\ handed = {[off |-> 0, bytes |-> First(entry)],
                  [off |-> length(entry), bytes |-> Rest(entry)]}

\* C4 witness: the call skipped a bad frame and returned the second one
C4_Witness ==
  /\ Returned
  /\ BadThenGood(entry)
  /\ Len(Rest(entry)) > 16
  /\ ret.tag = "Some"
  /\ Cardinality(handed) = 2

\* C5: whenever header parsing fails on a non-empty buffer, in the first or
\* a later iteration, the call returns Ok(None) and the buffer is empty.
C5_HeaderErrClears ==
  [][(pc = "loop" /\ src # <<>> /\ ~new_checked(src)) =>
       (pc' = "idle" /\ ret' = None /\ src' = <<>>)]_vars

\* C5 witness: the header failed in a later iteration and a valid-looking
\* frame that trailed the corrupt bytes was discarded
C5_Witness ==
  /\ it.kind = "header_err"
  /\ it.off > 0
  /\ \E k \in HEADER_LEN..(it.src_len - 1) :
        ExactFrame(Suffix(entry, k)) /\ Decodable(Suffix(entry, k))
  /\ pc = "idle"
  /\ ret = None
  /\ src = <<>>

\* C6: no decode call increases the buffer length, and repeated calls
\* eventually return "no message".
C6_Draining ==
  /\ [][Len(src') <= Len(src)]_vars
  /\ <>(pc = "idle" /\ ret = None)

\* C6 witness: after a call that returned a message, a later call on the
\* shrunken buffer returned "no message"
C6_Witness ==
  /\ Returned
  /\ prev.called
  /\ prev.ret.tag = "Some"
  /\ Len(prev.entry) > Len(entry)
  /\ ret = None
  /\ src = <<>>

\* C7: every iteration that does not return shrinks the buffer by at least
\* one byte, and every call terminates.
C7_LoopTerminates ==
  /\ [][(pc = "loop" /\ pc' = "loop") => Len(src') <= Len(src) - 1]_vars
  /\ (pc = "loop") ~> (pc = "idle")

\* C7 witness: a second iteration of one call dropped a frame whose header
\* declares the smallest length the header parser accepts
C7_Witness ==
  /\ pc = "loop"
  /\ FrameIter
  /\ it.off > 0
  /\ it.declared = HEADER_LEN
  /\ it.len = HEADER_LEN
  /\ ~it.ok
  /\ src # <<>>

\* C8: an iteration that sees a parsed header with 0 <= S - D <= 16 hands
\* all S bytes to the typed codec as one frame whose length field reads S;
\* the call ends with the buffer empty, returning that frame's message or
\* "no message", and no frame is parsed beyond that one.
C8_Workaround ==
  (FrameIter /\ Slack >= 0 /\ Slack <= 16) =>
     /\ pc # "panicked"
     /\ Len(it.bytes) = it.src_len
     /\ length(it.bytes) = it.src_len
     /\ SubSeq(it.bytes, 5, it.src_len)
          = SubSeq(Suffix(entry, it.src_len), 5, it.src_len)
     /\ [off |-> it.off, bytes |-> it.bytes] \in handed
     /\ \A f \in handed : f.off <= it.off
     /\ src = <<>>
     /\ pc = "idle" =>
          ret = IF it.ok THEN Some(Message(it.bytes)) ELSE None

\* C8 witness: the header declares 16 bytes fewer than are buffered, the 16
\* bytes beyond the declared length would parse as a frame of their own, and
\* the call returned the one message made of all S bytes
C8_Witness ==
  /\ Returned
  /\ FrameIter
  /\ Slack = 16
  /\ ExactFrame(Suffix(entry, 16))
  /\ ret.tag = "Some"
  /\ ret.packet.length = it.src_len
  /\ Cardinality(handed) = 1

\* C9: a buffer that is exactly one well-formed decodable frame (declared
\* length = buffer length) yields that message, leaves the buffer empty, and
\* the typed codec is handed the original bytes unchanged.
C9_ExactFrame ==
  (Returned /\ ExactFrame(entry) /\ Decodable(entry)) =>
     /\ ret = Some(Message(entry))
     /\ src = <<>>
     /\ handed = {[off |-> 0, bytes |-> entry]}

\* C9 witness: a call on one exact frame with a payload has returned
C9_Witness ==
  /\ Returned
  /\ ExactFrame(entry)
  /\ Decodable(entry)
  /\ Len(entry) > HEADER_LEN
  /\ ret.tag = "Some"
  /\ Len(ret.packet.payload) = Len(entry) - HEADER_LEN

\* C10: once a call has begun the buffer is a suffix of the buffer at call
\* entry; when a message is returned the bytes after the consumed frames are
\* untouched, and every frame handed to the codec lies in the consumed part.
C10_FrontOnly ==
  ret # NoCall =>
     /\ IsSuffix(src, entry)
     /\ \A f \in handed : f.off + Len(f.bytes) <= Len(entry) - Len(src)

\* C10 witness: a call dropped a frame, returned the message of a later
\* one and left bytes buffered
C10_Witness ==
  /\ Returned
  /\ ret.tag = "Some"
  /\ src # <<>>
  /\ Cardinality(handed) = 2
  /\ src = Suffix(entry, Len(src))

\* C11: decode on an empty buffer returns Ok(None) without attempting header
\* parsing or typed decoding, and leaves the buffer empty.
C11_EmptyIsNone ==
  (Returned /\ entry = <<>>) =>
     /\ ret = None
     /\ src = <<>>
     /\ it = NoIter
     /\ handed = {}

\* C11 witness: a call entered with an empty buffer has returned, after an
\* earlier call had emptied the buffer by returning a message
C11_Witness ==
  /\ Returned
  /\ entry = <<>>
  /\ prev.called
  /\ prev.ret.tag = "Some"
  /\ ret = None

\* C12: for every buffer content the result of decode is Ok(None) or
\* Ok(Some(message)), never an error and never a panic.
C12_NeverErr ==
  /\ pc # "panicked"
  /\ ret.tag # "Err"
  /\ Returned => (ret = None \/ (ret.tag = "Some" /\ it.ok /\ ret.packet = Message(it.bytes)))

\* C12 witness: a call met an undecodable payload and then a corrupt header
\* and returned "no message"
C12_Witness ==
  /\ Returned
  /\ it.kind = "header_err"
  /\ handed # {}
  /\ ret = None

\* C17: whenever a call returns "no message" the buffer is empty on return;
\* a call leaves bytes buffered only when it returns a message.
C17_NoneMeansEmpty ==
  /\ (Returned /\ ret = None) => src = <<>>
  /\ (Returned /\ src # <<>>) => ret.tag = "Some"

\* C17 witness: a call on a non-empty buffer dropped a frame, met a corrupt
\* header with bytes behind it, and returned "no message"
C17_Witness ==
  /\ Returned
  /\ ret = None
  /\ src = <<>>
  /\ handed # {}
  /\ it.kind = "header_err"
  /\ it.src_len > HEADER_LEN

\* C18: every frame handed to the typed codec has a header length field
\* equal to the frame's byte count.
C18_LengthMatchesFrame ==
  \A f \in handed : length(f.bytes) = Len(f.bytes)

\* C18 witness: one call handed over a frame split off by its declared
\* length and then a frame whose length field the workaround rewrote
C18_Witness ==
  /\ FrameIter
  /\ it.off > 0
  /\ it.declared < it.src_len
  /\ it.len = it.src_len
  /\ length(it.bytes) = it.src_len
  /\ Cardinality(handed) = 2

\* the byte range of a handed frame, counted from the call's entry buffer
Overlap(f, g) ==
  /\ f.off < g.off + Len(g.bytes)
  /\ g.off < f.off + Len(f.bytes)

\* C19: each buffered byte is handed to the typed codec in at most one
\* frame, and the messages returned by successive calls come from frames at
\* strictly increasing buffer offsets.
C19_InOrderOnce ==
  /\ \A f, g \in handed : f # g => ~Overlap(f, g)
  /\ (ret # NoCall /\ prev.called) =>
        LET shift == Len(prev.entry) - Len(entry)
        IN /\ shift >= 0
           /\ prev.it.kind = "frame" => prev.it.off + prev.it.len <= shift
           /\ (prev.ret.tag = "Some" /\ ret.tag = "Some") =>
                 /\ prev.it.off + prev.it.len <= shift + it.off
                 /\ prev.it.off < shift + it.off

\* C19 witness: two successive calls each returned a message, the second
\* from a frame further into the buffer, after the first call had dropped
\* a frame
C19_Witness ==
  /\ Returned
  /\ prev.called
  /\ prev.ret.tag = "Some"
  /\ ret.tag = "Some"
  /\ prev.it.off > 0
  /\ ret # prev.ret

\* C15: when the header at the front of the buffer is complete and declares
\* a length greater than the S buffered bytes (negative slack), the iteration
\* applies the truncation workaround: all S bytes are handed to the typed
\* codec as one frame whose length field reads S, and the buffer is not
\* discarded as unparseable.
C15_NegativeSlack ==
  [][(pc = "loop" /\ Len(src) >= HEADER_LEN /\ length(src) > Len(src)) =>
       /\ it'.kind = "frame"
       /\ it'.len = Len(src)
       /\ [off |-> Len(entry) - Len(src),
           bytes |-> set_length(src, Len(src))] \in handed']_vars

IsPrefix(s, b) == Len(s) <= Len(b) /\ s = SubSeq(b, 1, Len(s))

\* C13: a message encoded into an empty buffer and decoded from the bytes
\* produced, alone (slack 0) or followed by more than 16 further bytes,
\* comes back equal, and exactly its encoded bytes leave the buffer.
C13_RoundTrip ==
  (/\ Returned
   /\ enc.called
   /\ enc.res = "Ok"
   /\ enc.before = <<>>
   /\ IsPrefix(enc.bytes, entry)
   /\ (Len(entry) = Len(enc.bytes) \/ Len(entry) - Len(enc.bytes) > 16))
  => /\ ret = Some(enc.msg)
     /\ src = SubSeq(entry, Len(enc.bytes) + 1, Len(entry))

\* C13 witness: a message with a payload came back from its encoded bytes
\* with 20 further bytes behind them, which stay buffered
C13_Witness ==
  /\ Returned
  /\ enc.called
  /\ enc.res = "Ok"
  /\ enc.before = <<>>
  /\ IsPrefix(enc.bytes, entry)
  /\ Len(entry) = Len(enc.bytes) + 20
  /\ Len(enc.msg.payload) = 4
  /\ ret = Some(enc.msg)
  /\ Len(src) = 20

\* C14: when encode fails the caller gets an explicit error and the output
\* buffer is exactly as it was before the call.
C14_EncodeAtomic ==
  [][enc' # enc =>
       /\ remaining_mut(out) < buffer_len(enc'.msg) => enc'.res = "Err"
       /\ enc'.res = "Err" => (out' = out /\ enc'.before = out)]_vars

\* C14 witness: an encode failed on a buffer that already held bytes
C14_Witness ==
  /\ enc.called
  /\ enc.res = "Err"
  /\ enc.before # <<>>
  /\ out = enc.before

\* C16: NetlinkAuditCodec::encode gives the result and the output buffer of
\* the generic NetlinkCodec::encode: the message's bytes appended after the
\* existing contents, which are unchanged.
C16_EncodePassthrough ==
  [][enc' # enc =>
       LET g == NetlinkCodec_encode(enc'.msg, out)
       IN /\ enc'.res = g.res
          /\ out' = g.buf
          /\ IsPrefix(out, out')
          /\ g.res = "Ok" => out' = out \o serialize(enc'.msg)]_vars

\* C16 witness: a message was appended behind the bytes of an earlier one
C16_Witness ==
  /\ enc.called
  /\ enc.res = "Ok"
  /\ enc.before # <<>>
  /\ out = enc.before \o serialize(enc.msg)

====
